---- MODULE Spec2Model ----
(***************************************************************************)
(* Model of pydicom_deid.py: the lookup-table loader, the date shifters,   *)
(* the per-file record processor and the per-subfolder driver loop.        *)
(* Text values are TLA+ strings; Char(s, i) is the one-character string at *)
(* position i (1-based).  A dataset is a function from tag coordinates     *)
(* <<group, element>> to elements [VR, value]; the bytes of a file are     *)
(* identified with the dataset they decode to.                             *)
(***************************************************************************)
EXTENDS Integers, Sequences, FiniteSets, TLC

VARIABLES
    pc,                \* position of the main block: load, listdir, files, done, crashed, killed
    run,               \* number of the current invocation of the script
    personal_csv,      \* rows of Personal_map.csv (input, read-only)
    content,           \* dcm_path -> dataset stored in the input tree (input, read-only)
    image_map,         \* (pid, acc) -> image_occurence_id
    personal_map,      \* pid -> [person_id, Days_Shifted]
    subfolders,        \* the list os.listdir(input_root_dir) returned
    idx,               \* enumerate() index of the outer loop over subfolders
    gen,               \* the find_dicom_files generator of the inner loop
    anonymized_count, unprocessed_count, processed_count,
    fs,                \* output root: path -> dataset of every file written so far
    reports,           \* the "Anonymized | Unprocessed | Total" lines printed this run
    last,              \* the most recent process_dicom_file call and how it ended
    first,             \* dcm_path -> how its first process_dicom_file call ended
    sh_pc, sh_kind, sh_value, sh_days, sh_out, sh_back   \* date shifter exercised alone

pipeVars == <<pc, run, personal_csv, content, image_map, personal_map, subfolders, idx, gen,
              anonymized_count, unprocessed_count, processed_count, fs, reports,
              last, first>>
shiftVars == <<sh_pc, sh_kind, sh_value, sh_days, sh_out, sh_back>>
vars == <<pipeVars, shiftVars>>

(***************************************************************************)
(* Strings                                                                 *)
(***************************************************************************)
Char(s, i) == SubSeq(s, i, i)

DigitChars == {"0", "1", "2", "3", "4", "5", "6", "7", "8", "9"}
NonZeroDigitChars == DigitChars \ {"0"}

DigitVal(c) ==
    CASE c = "0" -> 0 [] c = "1" -> 1 [] c = "2" -> 2 [] c = "3" -> 3 [] c = "4" -> 4
      [] c = "5" -> 5 [] c = "6" -> 6 [] c = "7" -> 7 [] c = "8" -> 8 [] c = "9" -> 9

DigitStr(n) ==
    CASE n = 0 -> "0" [] n = 1 -> "1" [] n = 2 -> "2" [] n = 3 -> "3" [] n = 4 -> "4"
      [] n = 5 -> "5" [] n = 6 -> "6" [] n = 7 -> "7" [] n = 8 -> "8" [] n = 9 -> "9"

IsDigit(s, i) == i >= 1 /\ i <= Len(s) /\ Char(s, i) \in DigitChars

\* int() of a string of decimal digits: the value of its first n characters
RECURSIVE DigitsValue(_, _)
DigitsValue(s, n) ==
    IF n = 0 THEN 0 ELSE DigitsValue(s, n - 1) * 10 + DigitVal(Char(s, n))

DigitsToInt(s) == DigitsValue(s, Len(s))

\* str() / "%d" of a natural number, no padding
RECURSIVE NatStr(_)
NatStr(n) == IF n < 10 THEN DigitStr(n) ELSE NatStr(n \div 10) \o DigitStr(n % 10)

\* "%02d" of a natural number
Pad2(n) == IF n < 10 THEN "0" \o DigitStr(n) ELSE NatStr(n)

\* The characters str.isspace() holds of, among the code points below 256: tab, line
\* feed, vertical tab, form feed, carriage return, the separators 28..31, space,
\* next line (133) and no-break space (160).  The blanks above 255 are not text of
\* this model.
WhiteChars == {"\t", "\n", "", "\f", "\r", "", "", "", "", " ", "", " "}

\* The blanks int() skips around a number: those of str.strip() but the
\* separators 28..31, which int() takes for a part of the literal.
IntWhiteChars == {"\t", "\n", "", "\f", "\r", " ", "", " "}

\* what lies between the first and the last character that is not in blanks
StripOf(s, blanks) ==
    LET inked == { i \in 1..Len(s) : Char(s, i) \notin blanks }
    IN  IF inked = {} THEN ""
        ELSE SubSeq(s, CHOOSE i \in inked : \A j \in inked : i <= j,
                       CHOOSE i \in inked : \A j \in inked : i >= j)

\* str.strip()
Strip(s) == StripOf(s, WhiteChars)

\* The characters below code point 256 that str.lower() changes, and what it makes
\* of each: the letters A..Z and the capital letters of 192..222, which lie 32 below
\* their small letters.
UpperChars == "ABCDEFGHIJKLMNOPQRSTUVWXYZÀÁÂÃÄÅÆÇÈÉÊËÌÍÎÏÐÑÒÓÔÕÖØÙÚÛÜÝÞ"
LowerChars == "abcdefghijklmnopqrstuvwxyzàáâãäåæçèéêëìíîïðñòóôõöøùúûüýþ"

LowerChar(c) ==
    IF \E i \in 1..Len(UpperChars) : Char(UpperChars, i) = c
    THEN Char(LowerChars, CHOOSE i \in 1..Len(UpperChars) : Char(UpperChars, i) = c)
    ELSE c

\* str.lower(), from the i-th character on
RECURSIVE LowerFrom(_, _)
LowerFrom(s, i) ==
    IF i > Len(s) THEN "" ELSE LowerChar(Char(s, i)) \o LowerFrom(s, i + 1)

Lower(s) == LowerFrom(s, 1)

\* str.endswith()
EndsWith(s, suffix) ==
    Len(s) >= Len(suffix) /\ SubSeq(s, Len(s) - Len(suffix) + 1, Len(s)) = suffix

\* s[:n] and s[n:]
Prefix(s, n) == IF Len(s) <= n THEN s ELSE SubSeq(s, 1, n)
Suffix(s, n) == IF Len(s) <= n THEN "" ELSE SubSeq(s, n + 1, Len(s))

(***************************************************************************)
(* Results of calls that may raise                                         *)
(***************************************************************************)
Ok(v) == [ok |-> TRUE, value |-> v]
Raise(e) == [ok |-> FALSE, error |-> e]

(***************************************************************************)
(* Calendar arithmetic of datetime (proleptic Gregorian ordinals)          *)
(***************************************************************************)
MaxOrdinal == 3652059           \* date(9999, 12, 31).toordinal()
MaxDeltaDays == 999999999       \* timedelta.max.days

IsLeap(y) == y % 4 = 0 /\ (y % 100 # 0 \/ y % 400 = 0)

DaysInMonthTable == <<31, 28, 31, 30, 31, 30, 31, 31, 30, 31, 30, 31>>
DaysBeforeMonthTable == <<0, 31, 59, 90, 120, 151, 181, 212, 243, 273, 304, 334>>

DaysInMonth(y, m) == IF m = 2 /\ IsLeap(y) THEN 29 ELSE DaysInMonthTable[m]
DaysBeforeYear(y) == (y - 1) * 365 + (y - 1) \div 4 - (y - 1) \div 100 + (y - 1) \div 400
DaysBeforeMonth(y, m) == DaysBeforeMonthTable[m] + (IF m > 2 /\ IsLeap(y) THEN 1 ELSE 0)

\* date.toordinal(): 0001-01-01 is day 1
Ymd2Ord(y, m, d) == DaysBeforeYear(y) + DaysBeforeMonth(y, m) + d

\* date.fromordinal()
Ord2Ymd(ordinal) ==
    LET n0   == ordinal - 1
        n400 == n0 \div 146097
        r400 == n0 % 146097
        n100 == r400 \div 36524
        r100 == r400 % 36524
        n4   == r100 \div 1461
        r4   == r100 % 1461
        n1   == r4 \div 365
        n    == r4 % 365
        year == n400 * 400 + 1 + n100 * 100 + n4 * 4 + n1
    IN  IF n1 = 4 \/ n100 = 4 THEN [year |-> year - 1, month |-> 12, day |-> 31]
        ELSE
          LET leap  == n1 = 3 /\ (n4 # 24 \/ n100 = 3)
              mEst  == (n + 50) \div 32
              pEst  == DaysBeforeMonthTable[mEst] + (IF mEst > 2 /\ leap THEN 1 ELSE 0)
              month == IF pEst > n THEN mEst - 1 ELSE mEst
              prec  == IF pEst > n
                       THEN pEst - (DaysInMonthTable[month]
                                    + (IF month = 2 /\ leap THEN 1 ELSE 0))
                       ELSE pEst
          IN  [year |-> year, month |-> month, day |-> n - prec + 1]

(***************************************************************************)
(* datetime.strptime for the two formats the script uses.  The format is   *)
(* compiled to a regular expression of one group per directive, matched    *)
(* from the start of the text by backtracking; every directive after %Y    *)
(* takes two characters before it tries one.  The text must then be used   *)
(* up, and the fields must name a real date and time.                      *)
(***************************************************************************)
DAFormat == <<"Y", "m", "d">>                      \* "%Y%m%d"
DTFormat == <<"Y", "m", "d", "H", "M", "S">>       \* "%Y%m%d%H%M%S"

\* does directive f match the w characters of s that start at position p
DirectiveMatches(f, s, p, w) ==
    /\ p + w - 1 <= Len(s)
    /\ LET c1 == Char(s, p)
           c2 == Char(s, p + 1)
       IN  CASE f = "Y" -> w = 4 /\ \A i \in p..(p + 3) : IsDigit(s, i)
             [] f = "m" -> IF w = 2
                           THEN \/ c1 = "1" /\ c2 \in {"0", "1", "2"}
                                \/ c1 = "0" /\ c2 \in NonZeroDigitChars
                           ELSE c1 \in NonZeroDigitChars
             [] f = "d" -> IF w = 2
                           THEN \/ c1 = "3" /\ c2 \in {"0", "1"}
                                \/ c1 \in {"1", "2"} /\ c2 \in DigitChars
                                \/ c1 = "0" /\ c2 \in NonZeroDigitChars
                                \/ c1 = " " /\ c2 \in NonZeroDigitChars
                           ELSE c1 \in NonZeroDigitChars
             [] f = "H" -> IF w = 2
                           THEN \/ c1 = "2" /\ c2 \in {"0", "1", "2", "3"}
                                \/ c1 \in {"0", "1"} /\ c2 \in DigitChars
                           ELSE c1 \in DigitChars
             [] f = "M" -> IF w = 2
                           THEN c1 \in {"0", "1", "2", "3", "4", "5"} /\ c2 \in DigitChars
                           ELSE c1 \in DigitChars
             [] f = "S" -> IF w = 2
                           THEN \/ c1 = "6" /\ c2 \in {"0", "1"}
                                \/ c1 \in {"0", "1", "2", "3", "4", "5"} /\ c2 \in DigitChars
                           ELSE c1 \in DigitChars

\* 2^k
RECURSIVE Pow2(_)
Pow2(k) == IF k = 0 THEN 1 ELSE 2 * Pow2(k - 1)

\* The i-th way (0 first) of giving widths to the directives of fmt, in the order
\* the backtracking matcher tries them: the earliest directive varies slowest.
Width(fmt, i, k) ==
    IF k = 1 THEN 4
    ELSE IF (i \div Pow2(Len(fmt) - k)) % 2 = 0 THEN 2 ELSE 1

RECURSIVE StartOf(_, _, _)
StartOf(fmt, i, k) == IF k = 1 THEN 1 ELSE StartOf(fmt, i, k - 1) + Width(fmt, i, k - 1)

WidthsMatch(fmt, s, i) ==
    \A k \in 1..Len(fmt) : DirectiveMatches(fmt[k], s, StartOf(fmt, i, k), Width(fmt, i, k))

\* int() of a matched group (the day group may start with a blank)
GroupInt(fmt, s, i, k) ==
    DigitsToInt(StripOf(SubSeq(s, StartOf(fmt, i, k),
                                StartOf(fmt, i, k) + Width(fmt, i, k) - 1),
                         IntWhiteChars))

\* the checks made once the groups are converted to numbers
CheckedFields(used, length, year, month, day, hour, minute, second) ==
    IF used # length THEN Raise("ValueError")                  \* unconverted data remains
    ELSE IF year < 1 THEN Raise("ValueError")                  \* year out of range
    ELSE IF day > DaysInMonth(year, month) THEN Raise("ValueError")
    ELSE IF second > 59 THEN Raise("ValueError")               \* second must be in 0..59
    ELSE Ok([year |-> year, month |-> month, day |-> day,
             hour |-> hour, minute |-> minute, second |-> second])

\* the groups of the match found with the i-th way of giving widths
MatchedAs(s, fmt, i) ==
    CheckedFields(StartOf(fmt, i, Len(fmt)) + Width(fmt, i, Len(fmt)) - 1, Len(s),
                  GroupInt(fmt, s, i, 1), GroupInt(fmt, s, i, 2), GroupInt(fmt, s, i, 3),
                  IF Len(fmt) = 6 THEN GroupInt(fmt, s, i, 4) ELSE 0,
                  IF Len(fmt) = 6 THEN GroupInt(fmt, s, i, 5) ELSE 0,
                  IF Len(fmt) = 6 THEN GroupInt(fmt, s, i, 6) ELSE 0)

FirstOf(ways) == CHOOSE w \in ways : \A v \in ways : w <= v

FirstMatch(s, fmt, ways) ==
    IF ways = {} THEN Raise("ValueError")                      \* does not match format
    ELSE MatchedAs(s, fmt, FirstOf(ways))

Strptime(s, fmt) ==
    FirstMatch(s, fmt, {i \in 0..(Pow2(Len(fmt) - 1) - 1) : WidthsMatch(fmt, s, i)})

\* a datetime of the date with ordinal o and the time of day of t
AtOrdinal(o, t) ==
    IF o < 1 \/ o > MaxOrdinal THEN Raise("OverflowError")
    ELSE Ok([year |-> Ord2Ymd(o).year, month |-> Ord2Ymd(o).month, day |-> Ord2Ymd(o).day,
             hour |-> t.hour, minute |-> t.minute, second |-> t.second])

\* datetime + timedelta(days=days)
AddDays(t, days) ==
    IF days > MaxDeltaDays \/ days < -MaxDeltaDays THEN Raise("OverflowError")
    ELSE AtOrdinal(Ymd2Ord(t.year, t.month, t.day) + days, t)

\* base + timedelta(days=days) when strptime returned base
Shifted(base, days) == IF ~base.ok THEN base ELSE AddDays(base.value, days)

(***************************************************************************)
(* The date shifters                                                       *)
(***************************************************************************)
DTPrefixLen == 14

FormatDAUnpadded(t) == NatStr(t.year) \o NatStr(t.month) \o NatStr(t.day)

\* DA(date): the text pydicom keeps and writes for the value, year unpadded
FormatDA(t) == NatStr(t.year) \o Pad2(t.month) \o Pad2(t.day)

\* strftime("%Y%m%d%H%M%S"): four-digit padding of %Y is not applied by the C library
FormatDT(t) ==
    NatStr(t.year) \o Pad2(t.month) \o Pad2(t.day)
        \o Pad2(t.hour) \o Pad2(t.minute) \o Pad2(t.second)

\* DA(shifted.date())
AsDA(shifted) == IF ~shifted.ok THEN shifted ELSE Ok(FormatDA(shifted.value))

\* DT(text): pydicom rejects a text of more than 26 characters
CheckedDT(text) == IF Len(text) > 26 THEN Raise("ValueError") ELSE Ok(text)

\* DT(shifted.strftime("%Y%m%d%H%M%S") + rest)
AsDT(shifted, rest) ==
    IF ~shifted.ok THEN shifted ELSE CheckedDT(FormatDT(shifted.value) \o rest)

shift_da(da_value, days) == AsDA(Shifted(Strptime(da_value, DAFormat), days))

shift_dt_drop_suffix(dt_value, days) ==
    AsDT(Shifted(Strptime(Prefix(dt_value, DTPrefixLen), DTFormat), days), "")

shift_dt(dt_value, days) ==
    AsDT(Shifted(Strptime(Prefix(dt_value, DTPrefixLen), DTFormat), days),
         Suffix(dt_value, DTPrefixLen))

(***************************************************************************)
(* load_lookup_tables                                                      *)
(***************************************************************************)
\* int(text): blanks around it, an optional sign, digits with single underscores between
RECURSIVE WithoutUnderscoresFrom(_, _)
WithoutUnderscoresFrom(s, i) ==
    IF i > Len(s) THEN ""
    ELSE (IF Char(s, i) = "_" THEN "" ELSE Char(s, i)) \o WithoutUnderscoresFrom(s, i + 1)

WithoutUnderscores(s) == WithoutUnderscoresFrom(s, 1)

IsIntBody(s) ==
    /\ Len(s) > 0
    /\ IsDigit(s, 1)
    /\ IsDigit(s, Len(s))
    /\ \A i \in 1..Len(s) : IsDigit(s, i) \/ (Char(s, i) = "_" /\ IsDigit(s, i + 1))

ParseIntLenient(text) ==
    LET t    == StripOf(text, IntWhiteChars)
        neg  == Len(t) > 0 /\ Char(t, 1) = "-"
        body == IF Len(t) > 0 /\ Char(t, 1) \in {"+", "-"} THEN SubSeq(t, 2, Len(t)) ELSE t
    IN  IF ~IsIntBody(body) THEN Ok(0)
        ELSE Ok((IF neg THEN -1 ELSE 1) * DigitsToInt(WithoutUnderscores(body)))

ParseInt(text) ==
    LET t    == StripOf(text, IntWhiteChars)
        neg  == Len(t) > 0 /\ Char(t, 1) = "-"
        body == IF Len(t) > 0 /\ Char(t, 1) \in {"+", "-"} THEN SubSeq(t, 2, Len(t)) ELSE t
    IN  IF ~IsIntBody(body) THEN Raise("ValueError")
        ELSE Ok((IF neg THEN -1 ELSE 1) * DigitsToInt(WithoutUnderscores(body)))

\* d[key] = value on a dictionary kept as a function
SetItem(d, key, value) ==
    [k \in DOMAIN d \cup {key} |-> IF k = key THEN value ELSE d[k]]

EmptyDict == [k \in {} |-> 0]

\* the first loop: rows of Image_map.csv from row k on, added to image map m
RECURSIVE LoadImageRows(_, _, _)
LoadImageRows(rows, k, m) ==
    IF k > Len(rows) THEN m
    ELSE LET pid       == Strip(rows[k].PatientID)
             acc       == Strip(rows[k].AccessionNumber)
             trial_acc == Strip(rows[k].image_occurence_id)
         IN  LoadImageRows(rows, k + 1, SetItem(m, <<pid, acc>>, trial_acc))

\* the second loop: rows of Personal_map.csv; int() of a row may raise
RECURSIVE LoadPersonalRows(_, _, _)
LoadPersonalRows(rows, k, m) ==
    IF k > Len(rows) THEN Ok(m)
    ELSE LET pid  == Strip(rows[k].PatientID)
             days == ParseInt(rows[k].Days_Shifted)
         IN  IF ~days.ok THEN days
             ELSE LoadPersonalRows(rows, k + 1,
                      SetItem(m, pid, [person_id |-> Strip(rows[k].person_id),
                                       Days_Shifted |-> days.value]))

load_lookup_tables(image_rows, personal_rows) ==
    LET imap == LoadImageRows(image_rows, 1, EmptyDict)
        pmap == LoadPersonalRows(personal_rows, 1, EmptyDict)
    IN  IF ~pmap.ok THEN pmap
        ELSE Ok([image_map |-> imap, personal_map |-> pmap.value])

(***************************************************************************)
(* Paths                                                                   *)
(***************************************************************************)
\* os.path.join of a directory and a relative path
Join(a, b) == a \o "/" \o b

\* os.path.relpath of a path below start
RelPath(path, start) == SubSeq(path, Len(start) + 2, Len(path))

\* os.path.basename
BaseName(path) ==
    LET slashes == { i \in 1..Len(path) : Char(path, i) = "/" }
    IN  IF slashes = {} THEN path
        ELSE SubSeq(path, (CHOOSE i \in slashes : \A j \in slashes : i >= j) + 1, Len(path))

TargetPathFlattened(root, path, start) == Join(root, BaseName(path))

\* the place of an input file in an output tree
TargetPath(root, path, start) == Join(root, RelPath(path, start))

(***************************************************************************)
(* process_dicom_file                                                      *)
(***************************************************************************)
HexVal(c) ==
    IF c \in DigitChars THEN DigitVal(c)
    ELSE CASE Lower(c) = "a" -> 10 [] Lower(c) = "b" -> 11 [] Lower(c) = "c" -> 12
           [] Lower(c) = "d" -> 13 [] Lower(c) = "e" -> 14 [] Lower(c) = "f" -> 15

\* int(text, 16): the value of the first n characters
RECURSIVE HexValue(_, _)
HexValue(s, n) ==
    IF n = 0 THEN 0 ELSE HexValue(s, n - 1) * 16 + HexVal(Char(s, n))

HexToInt(s) == HexValue(s, Len(s))

date_shift_tags == <<
    <<"0008", "0012">>, <<"0008", "0020">>, <<"0008", "0021">>, <<"0008", "0022">>,
    <<"0008", "0023">>, <<"0008", "002a">>, <<"0010", "0030">>, <<"0018", "1012">>,
    <<"0018", "1078">>, <<"0018", "1079">>, <<"0018", "1200">>, <<"0018", "700c">>,
    <<"0032", "1000">>, <<"0032", "1010">>, <<"0032", "1040">>, <<"0032", "1050">>,
    <<"0038", "0020">>, <<"0038", "0030">>, <<"3006", "0008">> >>

TagOf(pair) == <<HexToInt(pair[1]), HexToInt(pair[2])>>

\* tag = (int(group, 16), int(element, 16)) of every entry, in the list's order
date_shift_tag_values == [k \in 1..Len(date_shift_tags) |-> TagOf(date_shift_tags[k])]

PatientIDTag == <<16, 32>>            \* (0010,0020)
AccessionNumberTag == <<8, 80>>       \* (0008,0050)

\* getattr(ds, keyword, "")
GetAttr(ds, tag) == IF tag \in DOMAIN ds THEN ds[tag].value ELSE ""

\* ds.<keyword> = value: the element keeps its VR, a new one gets the dictionary's
SetAttr(ds, tag, vr, value) ==
    SetItem(ds, tag, [VR |-> IF tag \in DOMAIN ds THEN ds[tag].VR ELSE vr, value |-> value])

\* ds[tag].value = new, unless the shifter raised
Assigned(ds, tag, new) ==
    IF ~new.ok THEN [status |-> "raise", ds |-> ds]
    ELSE [status |-> "shifted", ds |-> [ds EXCEPT ![tag].value = new.value]]

\* the body of the loop over date_shift_tags for one tag
ShiftTag(ds, tag, days_shifted) ==
    IF tag \notin DOMAIN ds THEN [status |-> "shifted", ds |-> ds]
    ELSE IF ds[tag].value = "" THEN [status |-> "shifted", ds |-> ds]
    ELSE IF ds[tag].VR = "DA"
         THEN Assigned(ds, tag, shift_da(ds[tag].value, days_shifted))
    ELSE IF ds[tag].VR = "DT"
         THEN Assigned(ds, tag, shift_dt(ds[tag].value, days_shifted))
    ELSE [status |-> "unhandled", ds |-> ds]

\* the loop's k-th pass, entered with the outcome of the passes before it
NextPass(before, k, days_shifted) ==
    IF before.status # "shifted" THEN before
    ELSE ShiftTag(before.ds, date_shift_tag_values[k], days_shifted)

\* the first k passes of the loop over date_shift_tags; a return or an exception ends it
RECURSIVE ShiftTags(_, _, _)
ShiftTags(ds, k, days_shifted) ==
    IF k = 0 THEN [status |-> "shifted", ds |-> ds]
    ELSE CHOOSE after \in { NextPass(before, k, days_shifted) :
                               before \in {ShiftTags(ds, k - 1, days_shifted)} } : TRUE

MatchedEither(original_pid, original_acc, imap, pmap) ==
    original_pid \in DOMAIN pmap \/ <<original_pid, original_acc>> \in DOMAIN imap

\* matched_patient and matched_accession
Matched(original_pid, original_acc, imap, pmap) ==
    original_pid \in DOMAIN pmap /\ <<original_pid, original_acc>> \in DOMAIN imap

NoWrite == [k \in {} |-> 0]
WriteAt(path, ds) == [k \in {path} |-> ds]

\* shutil.copy2 to the unprocessed tree and return False
Unprocessed(dcm_path, ds, unprocessed_root, input_dicom_root_dir) ==
    [returns |-> "False",
     writes  |-> WriteAt(TargetPath(unprocessed_root, dcm_path, input_dicom_root_dir), ds)]

\* how the call ends once the loop over date_shift_tags has ended with res
AfterLoop(dcm_path, ds, res, output_root, unprocessed_root, input_dicom_root_dir) ==
    CASE res.status = "raise" -> [returns |-> "raise", writes |-> NoWrite]
      [] res.status = "unhandled" ->
           Unprocessed(dcm_path, ds, unprocessed_root, input_dicom_root_dir)
      [] res.status = "shifted" ->
           [returns |-> "True",
            writes  |-> WriteAt(TargetPath(output_root, dcm_path, input_dicom_root_dir),
                                res.ds)]

\* the lines after the match test: both identifiers are replaced, then the dates shifted
Deidentify(dcm_path, ds, original_pid, original_acc, output_root, unprocessed_root, imap, pmap, input_dicom_root_dir) ==
    IF original_pid \notin DOMAIN pmap \/ <<original_pid, original_acc>> \notin DOMAIN imap
    THEN [returns |-> "raise", writes |-> NoWrite]               \* KeyError
    ELSE AfterLoop(dcm_path, ds,
                   ShiftTags(SetAttr(SetAttr(ds, PatientIDTag, "LO",
                                             pmap[original_pid].person_id),
                                     AccessionNumberTag, "SH",
                                     imap[<<original_pid, original_acc>>]),
                             Len(date_shift_tags), pmap[original_pid].Days_Shifted),
                   output_root, unprocessed_root, input_dicom_root_dir)

\* The call's return value ("True", "False", or "raise" when an exception leaves it)
\* and the file it wrote.
process_dicom_file(dcm_path, output_root, unprocessed_root, imap, pmap, input_dicom_root_dir) ==
    LET ds           == content[dcm_path]
        original_pid == Strip(GetAttr(ds, PatientIDTag))
        original_acc == Strip(GetAttr(ds, AccessionNumberTag))
    IN  IF ~Matched(original_pid, original_acc, imap, pmap)
        THEN Unprocessed(dcm_path, ds, unprocessed_root, input_dicom_root_dir)
        ELSE Deidentify(dcm_path, ds, original_pid, original_acc, output_root,
                        unprocessed_root, imap, pmap, input_dicom_root_dir)

(***************************************************************************)
(* find_dicom_files and the input tree it walks                            *)
(***************************************************************************)
input_root_dir == "in"
output_root_dir == "out"
anonymized_dicom_root_dir == Join(output_root_dir, "dicom_anonymized")
unprocessed_dicom_root_dir == Join(output_root_dir, "dicom_unprocessed")

\* files of the input tree that are no DICOM files to read: a text file, a backup
\* whose name only contains ".dcm", and a plain file directly in the input root
OtherInputFiles == {"in/s1/notes.txt", "in/s1/st/c.dcm.bak", "in/x.dcm"}

\* every file on the disk: the input tree and what the script has written
FilesOnDisk == DOMAIN content \cup OtherInputFiles \cup DOMAIN fs

\* path lies in top or in a directory below it
IsBelow(top, path) ==
    Len(path) > Len(top) + 1 /\ SubSeq(path, 1, Len(top) + 1) = top \o "/"

\* the name of the entry of top on the way to path
EntryOf(top, path) ==
    LET rel     == RelPath(path, top)
        slashes == { i \in 1..Len(rel) : Char(rel, i) = "/" }
    IN  IF slashes = {} THEN rel
        ELSE SubSeq(rel, 1, (CHOOSE i \in slashes : \A j \in slashes : i <= j) - 1)

IsFileOf(top, path) == IsBelow(top, path) /\ EntryOf(top, path) = RelPath(path, top)

FileNames(top) == { EntryOf(top, p) : p \in { q \in FilesOnDisk : IsFileOf(top, q) } }

DirNames(top) ==
    { EntryOf(top, p) : p \in { q \in FilesOnDisk : IsBelow(top, q) /\ ~IsFileOf(top, q) } }

\* A directory gives its entries in an order of the file system's choosing: every
\* sequence that holds each of the names once is a listing it may return.
RECURSIVE Orders(_)
Orders(names) ==
    IF names = {} THEN {<< >>}
    ELSE UNION { { <<n>> \o rest : rest \in Orders(names \ {n}) } : n \in names }

\* the lists os.listdir(path) may return: the names of the files and directories in it
ListDir(path) == Orders(FileNames(path) \cup DirNames(path))

JoinAll(top, names) == [i \in 1..Len(names) |-> Join(top, names[i])]

\* find_dicom_files(root_dir) makes a generator and runs none of its body: os.walk
\* has root_dir to visit (dirs), and no directory is being read (root, files)
find_dicom_files(root_dir) == [dirs |-> <<root_dir>>, root |-> "", files |-> << >>]

NoGenerator == [dirs |-> << >>, root |-> "", files |-> << >>]

\* os.walk reads its next directory, top-down (for root, _, files in os.walk(root_dir)):
\* the states the generator may be in afterwards, one for each order of the listing
Visit(g) ==
    { [dirs |-> JoinAll(Head(g.dirs), dirnames) \o Tail(g.dirs),
       root |-> Head(g.dirs), files |-> filenames] :
        dirnames \in Orders(DirNames(Head(g.dirs))),
        filenames \in Orders(FileNames(Head(g.dirs))) }

\* The generator runs on to its next yield, to the next directory or to its end: a
\* name that does not end in ".dcm" is passed over, and a directory is read when
\* its turn has come.
Step(g) ==
    IF g.files # << >>
    THEN IF EndsWith(Lower(Head(g.files)), ".dcm")
         THEN {[kind |-> "yield", path |-> Join(g.root, Head(g.files)),
                gen |-> [g EXCEPT !.files = Tail(g.files)]]}
         ELSE {[kind |-> "more", path |-> "", gen |-> [g EXCEPT !.files = Tail(g.files)]]}
    ELSE IF g.dirs # << >>
         THEN { [kind |-> "more", path |-> "", gen |-> after] : after \in Visit(g) }
         ELSE {[kind |-> "stop", path |-> "", gen |-> g]}

\* the generator runs until it yields or ends, whatever the listings are
RECURSIVE Resume(_)
Resume(steps) ==
    IF \A s \in steps : s.kind # "more" THEN steps
    ELSE CHOOSE r \in { Resume(next) :
                          next \in { UNION { IF s.kind = "more" THEN Step(s.gen) ELSE {s} :
                                               s \in steps } } } : TRUE

\* the ways next() of the generator may end
NextFile(g) == Resume(Step(g))

(***************************************************************************)
(* Inputs of a run: the lookup tables and the datasets of the input files  *)
(***************************************************************************)
ImageCsv == <<
    [PatientID |-> "P1 ", AccessionNumber |-> "A1",  image_occurence_id |-> "TRIAL000"],
    [PatientID |-> "P1",   AccessionNumber |-> "A1", image_occurence_id |-> "TRIAL001"],
    [PatientID |-> "P2",   AccessionNumber |-> "A2",  image_occurence_id |-> "TRIAL002"],
    [PatientID |-> "P3",   AccessionNumber |-> "A3",  image_occurence_id |-> "TRIAL003"] >>

PersonalRows(d1, d2) == <<
    [PatientID |-> "P1", person_id |-> " SUBJ01", Days_Shifted |-> d1],
    [PatientID |-> "P2",  person_id |-> "SUBJ02",  Days_Shifted |-> d2] >>

PersonalTables ==
    { PersonalRows("10", "-366"), PersonalRows("\f-1", "+7"),
      PersonalRows("10", "abc"),  PersonalRows("1.5", "7"),
      PersonalRows("10", "7") }

El(vr, value) == [VR |-> vr, value |-> value]

StudyDateTag == <<8, 32>>              \* (0008,0020)
AcquisitionDateTimeTag == <<8, 42>>    \* (0008,002A)
ModalityTag == <<8, 96>>               \* (0008,0060)
PatientBirthDateTag == <<16, 48>>      \* (0010,0030)

IdElements(pid, acc) ==
    (PatientIDTag :> El("LO", pid)) @@ (AccessionNumberTag :> El("SH", acc))

MatchedIds == { IdElements("P1", "A1"), IdElements(" P1\f", "A1") }

UnmatchedIds ==
    { IdElements("P9", "A1"), IdElements("P1", "A9"), IdElements("P3", "A3"),
      (ModalityTag :> El("CS", "CT")) }

\* target elements whose values the shifters accept
GoodDates ==
    { (StudyDateTag :> El("DA", "20230101")),
      (StudyDateTag :> El("DA", "20240229"))
          @@ (AcquisitionDateTimeTag :> El("DT", "20231231235959.123456+0100"))
          @@ (PatientBirthDateTag :> El("DA", "")),
      (ModalityTag :> El("CS", "MR")) }

\* a DT value without seconds or minutes, and a target element that is no date
OddDates ==
    { (AcquisitionDateTimeTag :> El("DT", "2023010112")),
      (AcquisitionDateTimeTag :> El("DT", "202301011230")),
      (StudyDateTag :> El("DA", "20230101")) @@ (PatientBirthDateTag :> El("LO", "unknown")),
      (AcquisitionDateTimeTag :> El("DT", "2023010112"))
          @@ (PatientBirthDateTag :> El("LO", "unknown")) }

SomeDates ==
    { (StudyDateTag :> El("DA", "20230101")),
      (AcquisitionDateTimeTag :> El("DT", "2023010112")),
      (StudyDateTag :> El("DA", "20000229")) @@ (PatientBirthDateTag :> El("LO", "unknown")) }

Datasets(ids, dates) == { i @@ d : i \in ids, d \in dates }

InputContents ==
    { ("in/s1/a.dcm" :> f1) @@ ("in/s1/st/b.DCM" :> f2) @@ ("in/s2/a.dcm" :> f3) :
        f1 \in Datasets(MatchedIds, GoodDates \cup OddDates),
        f2 \in Datasets(UnmatchedIds, {(StudyDateTag :> El("DA", "20230101"))})
                  \cup Datasets({IdElements("P2", "A2")}, SomeDates),
        f3 \in Datasets({IdElements("P2", "A2")},
                        {(StudyDateTag :> El("DA", "19991231"))}) }

(***************************************************************************)
(* The main block                                                          *)
(***************************************************************************)
MaxRuns == 2

TallyBoth(success, anonymized, unprocessed) == <<anonymized + 1, unprocessed + 1>>

\* if success: anonymized_count += 1 else: unprocessed_count += 1
Tally(success, anonymized, unprocessed) ==
    IF success THEN <<anonymized + 1, unprocessed>> ELSE <<anonymized, unprocessed + 1>>

\* files written by a call replace what the output root held at their paths
Overwrite(files, writes) ==
    [p \in DOMAIN files \cup DOMAIN writes |->
        IF p \in DOMAIN writes THEN writes[p] ELSE files[p]]

ShiftIdle ==
    /\ sh_pc = "idle" /\ sh_kind = "" /\ sh_value = "" /\ sh_days = 0
    /\ sh_out = << >> /\ sh_back = << >>

StartOfRun ==
    /\ pc = "load"
    /\ image_map = EmptyDict /\ personal_map = EmptyDict
    /\ subfolders = << >> /\ idx = 0 /\ gen = NoGenerator
    /\ anonymized_count = 0 /\ unprocessed_count = 0 /\ processed_count = 0
    /\ reports = << >> /\ last = << >>

Init ==
    /\ StartOfRun
    /\ run = 1
    /\ personal_csv \in PersonalTables
    /\ content \in InputContents
    /\ fs = EmptyDict
    /\ first = EmptyDict
    /\ ShiftIdle

\* image_map, personal_map = load_lookup_tables(...); int() raising ends the run.
\* Then os.listdir lists the input root for the outer loop.
LoadLookupTables ==
    /\ pc = "load"
    /\ \E loaded \in {load_lookup_tables(ImageCsv, personal_csv)} :
          IF loaded.ok
          THEN /\ image_map' = loaded.value.image_map
               /\ personal_map' = loaded.value.personal_map
               /\ subfolders' \in ListDir(input_root_dir)
               /\ pc' = "listdir"
               /\ idx' = 1
          ELSE /\ pc' = "crashed"
               /\ UNCHANGED <<image_map, personal_map, subfolders, idx>>
    /\ UNCHANGED <<run, personal_csv, content, gen, anonymized_count,
                   unprocessed_count, processed_count, fs, reports, last, first>>
    /\ UNCHANGED shiftVars

\* the head of the outer loop: the counters are zeroed and the generator is made
StartSubfolder ==
    /\ pc = "listdir"
    /\ idx <= Len(subfolders)
    /\ gen' = find_dicom_files(Join(input_root_dir, subfolders[idx]))
    /\ anonymized_count' = 0
    /\ unprocessed_count' = 0
    /\ processed_count' = 0
    /\ pc' = "files"
    /\ UNCHANGED <<run, personal_csv, content, image_map, personal_map, subfolders, idx,
                   fs, reports, last, first>>
    /\ UNCHANGED shiftVars

\* the call of process_dicom_file in the inner loop's body and the counting after it
Processed(dcm_path, r) ==
    /\ processed_count' = processed_count + 1
    /\ fs' = Overwrite(fs, r.writes)
    /\ last' = <<[dcm_path |-> dcm_path, returns |-> r.returns, writes |-> r.writes]>>
    /\ first' = IF dcm_path \in DOMAIN first THEN first
                ELSE SetItem(first, dcm_path,
                             [dcm_path |-> dcm_path, returns |-> r.returns,
                              writes |-> r.writes])
    /\ IF r.returns = "raise"
       THEN /\ pc' = "crashed"
            /\ UNCHANGED <<anonymized_count, unprocessed_count>>
       ELSE /\ pc' = "files"
            /\ anonymized_count' =
                  Tally(r.returns = "True", anonymized_count, unprocessed_count)[1]
            /\ unprocessed_count' =
                  Tally(r.returns = "True", anonymized_count, unprocessed_count)[2]

\* one pass of the inner loop: the generator runs to its next yield, then the body
ProcessFile ==
    /\ pc = "files"
    /\ \E next \in NextFile(gen) :
          /\ next.kind = "yield"
          /\ gen' = next.gen
          /\ \E r \in {process_dicom_file(next.path, anonymized_dicom_root_dir,
                                            unprocessed_dicom_root_dir, image_map,
                                            personal_map, input_root_dir)} :
                Processed(next.path, r)
    /\ UNCHANGED <<run, personal_csv, content, image_map, personal_map, subfolders, idx,
                   reports>>
    /\ UNCHANGED shiftVars

\* the generator runs to its end: the subfolder's counts are printed
Report ==
    /\ pc = "files"
    /\ \E next \in NextFile(gen) :
          /\ next.kind = "stop"
          /\ gen' = next.gen
    /\ reports' = Append(reports, [subfolder   |-> subfolders[idx],
                                   anonymized  |-> anonymized_count,
                                   unprocessed |-> unprocessed_count,
                                   total       |-> processed_count])
    /\ idx' = idx + 1
    /\ pc' = "listdir"
    /\ UNCHANGED <<run, personal_csv, content, image_map, personal_map, subfolders,
                   anonymized_count, unprocessed_count, processed_count, fs, last, first>>
    /\ UNCHANGED shiftVars

\* os.listdir is exhausted: the script ends
Finish ==
    /\ pc = "listdir"
    /\ idx > Len(subfolders)
    /\ pc' = "done"
    /\ UNCHANGED <<run, personal_csv, content, image_map, personal_map, subfolders, idx,
                   gen, anonymized_count, unprocessed_count, processed_count, fs,
                   reports, last, first>>
    /\ UNCHANGED shiftVars

\* the process is ended from outside between two files; what it wrote stays
Interrupt ==
    /\ pc \in {"listdir", "files"}
    /\ pc' = "killed"
    /\ UNCHANGED <<run, personal_csv, content, image_map, personal_map, subfolders, idx,
                   gen, anonymized_count, unprocessed_count, processed_count, fs,
                   reports, last, first>>
    /\ UNCHANGED shiftVars

\* the script is started again on the same input, tables and output root
Rerun ==
    /\ pc \in {"done", "crashed", "killed"}
    /\ run < MaxRuns
    /\ run' = run + 1
    /\ pc' = "load"
    /\ image_map' = EmptyDict /\ personal_map' = EmptyDict
    /\ subfolders' = << >> /\ idx' = 0 /\ gen' = NoGenerator
    /\ anonymized_count' = 0 /\ unprocessed_count' = 0 /\ processed_count' = 0
    /\ reports' = << >> /\ last' = << >>
    /\ UNCHANGED <<personal_csv, content, fs, first>>
    /\ UNCHANGED shiftVars

Next ==
    \/ LoadLookupTables
    \/ StartSubfolder
    \/ ProcessFile
    \/ Report
    \/ Finish
    \/ Interrupt
    \/ Rerun

Spec == Init /\ [][Next]_vars

(***************************************************************************)
(* The date shifters applied to a value and then back                      *)
(***************************************************************************)
MaxShift == 3

SampleYears == {1999, 2000, 2023, 2024}

\* every calendar date of the sample years, as YYYYMMDD
SampleDates ==
    UNION { { NatStr(y) \o Pad2(m) \o Pad2(d) : d \in 1..DaysInMonth(y, m) } :
              y \in SampleYears, m \in 1..12 }

BoundaryDates ==
    { "19991231", "20000101", "20000228", "20000229", "20000301", "20230228",
      "20230301", "20231231", "20240229", "20241231" }

SampleTimes == { "000000", "123456", "235959" }

SampleSuffixes == { "", ".5", ".123456", "+0100", ".123456-0500" }

SampleDateTimes ==
    { d \o t \o x : d \in BoundaryDates, t \in SampleTimes, x \in SampleSuffixes }

\* day offsets: the small ones, and the lengths of a year and of a four-year cycle
SampleDays ==
    (-MaxShift..MaxShift) \cup {-1461, -366, -365, 365, 366, 1461}

InitShift ==
    /\ pc = "idle" /\ run = 0 /\ personal_csv = << >> /\ content = EmptyDict
    /\ image_map = EmptyDict /\ personal_map = EmptyDict
    /\ subfolders = << >> /\ idx = 0 /\ gen = NoGenerator
    /\ anonymized_count = 0 /\ unprocessed_count = 0 /\ processed_count = 0
    /\ fs = EmptyDict /\ reports = << >> /\ last = << >> /\ first = EmptyDict
    /\ sh_pc = "input"
    /\ sh_kind \in {"DA", "DT"}
    /\ sh_value \in IF sh_kind = "DA" THEN SampleDates ELSE SampleDateTimes
    /\ sh_days \in SampleDays
    /\ sh_out = << >>
    /\ sh_back = << >>

ShiftDate ==
    /\ sh_pc = "input" /\ sh_kind = "DA"
    /\ sh_out' = <<shift_da(sh_value, sh_days)>>
    /\ sh_pc' = "shifted"
    /\ UNCHANGED <<sh_kind, sh_value, sh_days, sh_back>>
    /\ UNCHANGED pipeVars

ShiftDateTime ==
    /\ sh_pc = "input" /\ sh_kind = "DT"
    /\ sh_out' = <<shift_dt(sh_value, sh_days)>>
    /\ sh_pc' = "shifted"
    /\ UNCHANGED <<sh_kind, sh_value, sh_days, sh_back>>
    /\ UNCHANGED pipeVars

UnshiftDate ==
    /\ sh_pc = "shifted" /\ sh_kind = "DA"
    /\ sh_out[1].ok
    /\ sh_back' = <<shift_da(sh_out[1].value, -sh_days)>>
    /\ sh_pc' = "restored"
    /\ UNCHANGED <<sh_kind, sh_value, sh_days, sh_out>>
    /\ UNCHANGED pipeVars

UnshiftDateTime ==
    /\ sh_pc = "shifted" /\ sh_kind = "DT"
    /\ sh_out[1].ok
    /\ sh_back' = <<shift_dt(sh_out[1].value, -sh_days)>>
    /\ sh_pc' = "restored"
    /\ UNCHANGED <<sh_kind, sh_value, sh_days, sh_out>>
    /\ UNCHANGED pipeVars

NextShift ==
    \/ ShiftDate
    \/ ShiftDateTime
    \/ UnshiftDate
    \/ UnshiftDateTime

SpecShift == InitShift /\ [][NextShift]_vars

(***************************************************************************)
(* Vocabulary of the properties: the latest call, its input and its files  *)
(***************************************************************************)
Called == last # << >>
CallPath == last[1].dcm_path
CallDs == content[CallPath]
CallPid == Strip(GetAttr(CallDs, PatientIDTag))
CallAcc == Strip(GetAttr(CallDs, AccessionNumberTag))
CallMatched ==
    /\ Called
    /\ CallPid \in DOMAIN personal_map
    /\ <<CallPid, CallAcc>> \in DOMAIN image_map

\* the path of an input file below the input root, and its two possible places
BelowInputRoot(path) == SubSeq(path, Len(input_root_dir) + 2, Len(path))
InProcessedTree(path) == anonymized_dicom_root_dir \o "/" \o BelowInputRoot(path)
InUnprocessedTree(path) == unprocessed_dicom_root_dir \o "/" \o BelowInputRoot(path)

TargetTags == { date_shift_tag_values[k] : k \in 1..Len(date_shift_tags) }
PopulatedTargets(ds) == { t \in TargetTags \cap DOMAIN ds : ds[t].value # "" }

AllDigits(v, from, to) == \A i \in from..to : IsDigit(v, i)
Number(v, from, to) == DigitsToInt(SubSeq(v, from, to))

\* an 8-digit calendar date
IsDate8(v) ==
    /\ Len(v) >= 8 /\ AllDigits(v, 1, 8)
    /\ Number(v, 1, 4) >= 1000
    /\ Number(v, 5, 6) \in 1..12
    /\ Number(v, 7, 8) \in 1..DaysInMonth(Number(v, 1, 4), Number(v, 5, 6))

WellFormedDA(v) == Len(v) = 8 /\ IsDate8(v)

\* YYYYMMDDHHMMSS followed by anything
WellFormedDT(v) ==
    /\ Len(v) >= 14 /\ Len(v) <= 26 /\ AllDigits(v, 1, 14) /\ IsDate8(v)
    /\ Number(v, 9, 10) <= 23 /\ Number(v, 11, 12) <= 59 /\ Number(v, 13, 14) <= 59

DayNumber(v) == Ymd2Ord(Number(v, 1, 4), Number(v, 5, 6), Number(v, 7, 8))

\* new is old with its date moved by days and everything after the date kept
MovedBy(old, new, days) ==
    /\ Len(new) = Len(old)
    /\ IsDate8(new)
    /\ DayNumber(new) = DayNumber(old) + days
    /\ Suffix(new, 8) = Suffix(old, 8)

\* out is ds with both identifiers replaced and every populated target moved
DeidentifiedFrom(ds, out, pid, acc) ==
    /\ DOMAIN out = DOMAIN ds \cup {PatientIDTag, AccessionNumberTag}
    /\ out[PatientIDTag].value = personal_map[pid].person_id
    /\ out[AccessionNumberTag].value = image_map[<<pid, acc>>]
    /\ \A t \in DOMAIN ds \ {PatientIDTag, AccessionNumberTag} :
          IF t \in PopulatedTargets(ds)
          THEN /\ out[t].VR = ds[t].VR
               /\ MovedBy(ds[t].value, out[t].value, personal_map[pid].Days_Shifted)
          ELSE out[t] = ds[t]

WrittenProcessed ==
    /\ last[1].returns = "True"
    /\ InProcessedTree(CallPath) \in DOMAIN fs
    /\ InUnprocessedTree(CallPath) \notin DOMAIN fs
    /\ DeidentifiedFrom(CallDs, fs[InProcessedTree(CallPath)], CallPid, CallAcc)

CopiedUnprocessed ==
    /\ last[1].returns = "False"
    /\ InUnprocessedTree(CallPath) \in DOMAIN fs
    /\ fs[InUnprocessedTree(CallPath)] = CallDs
    /\ InProcessedTree(CallPath) \notin DOMAIN fs

(***************************************************************************)
(* C1: every call of process_dicom_file ends with the file either fully    *)
(* de-identified in the processed tree or copied unchanged to the          *)
(* unprocessed tree, never in neither and never in both.                   *)
(***************************************************************************)
C1_EveryCallRoutesTheFile ==
    Called => (CallMatched /\ WrittenProcessed) \/ CopiedUnprocessed

(***************************************************************************)
(* C2: a record whose PatientID is not in the personal map, or whose       *)
(* (PatientID, AccessionNumber) pair is not in the image map, is returned  *)
(* as unprocessed and copied unchanged to the unprocessed tree; nothing of *)
(* it reaches the processed tree.                                          *)
(***************************************************************************)
C2_UnmatchedIsCopiedUnchanged ==
    (Called /\ ~CallMatched) => CopiedUnprocessed /\ pc # "crashed"

C2_Witness ==
    /\ Called /\ ~CallMatched
    /\ CallPid = "P1" /\ CallAcc = "A9"
    /\ CallPid \in DOMAIN personal_map
    /\ CopiedUnprocessed

(***************************************************************************)
(* C3: a matched record with a populated target tag whose VR is neither DA *)
(* nor DT is copied unchanged to the unprocessed tree and returned as      *)
(* unprocessed, and nothing changed in memory is persisted.                *)
(***************************************************************************)
HasUnhandledTarget(ds) == \E t \in PopulatedTargets(ds) : ds[t].VR \notin {"DA", "DT"}

C3_UnhandledVRIsCopiedUnchanged ==
    (CallMatched /\ HasUnhandledTarget(CallDs)) => CopiedUnprocessed

(***************************************************************************)
(* C4: a matched record with a DT target value shorter than 14 characters  *)
(* makes the date-time shifter fail, the failure is caught, the original   *)
(* file is copied to the unprocessed tree and counted as unprocessed, and  *)
(* the run goes on.                                                        *)
(***************************************************************************)
HasShortDT(ds) ==
    \E t \in PopulatedTargets(ds) : ds[t].VR = "DT" /\ Len(ds[t].value) < DTPrefixLen

C4_ShortDTIsRecovered ==
    (CallMatched /\ HasShortDT(CallDs)) =>
        /\ CopiedUnprocessed
        /\ pc # "crashed"
        /\ unprocessed_count >= 1

(***************************************************************************)
(* C5: a matched record whose target tags are each absent, empty, or       *)
(* populated with a value of category DA or DT is written to the processed *)
(* tree with both identifiers replaced and every populated target moved by *)
(* exactly the patient's day offset, the rest of the value kept; P1/A1     *)
(* with date 20230101 and offset 10 gives SUBJ01, TRIAL001 and 20230111.   *)
(***************************************************************************)
AllTargetsRecognized(ds) == \A t \in PopulatedTargets(ds) : ds[t].VR \in {"DA", "DT"}

IsScenario ==
    /\ CallMatched
    /\ CallPid = "P1" /\ CallAcc = "A1"
    /\ personal_map["P1"].Days_Shifted = 10
    /\ StudyDateTag \in DOMAIN CallDs
    /\ CallDs[StudyDateTag] = El("DA", "20230101")

ScenarioOutput ==
    /\ InProcessedTree(CallPath) \in DOMAIN fs
    /\ LET out == fs[InProcessedTree(CallPath)]
       IN  /\ out[PatientIDTag].value = "SUBJ01"
           /\ out[AccessionNumberTag].value = "TRIAL001"
           /\ out[StudyDateTag].value = "20230111"

C5_RecognizedIsDeidentified ==
    /\ (CallMatched /\ AllTargetsRecognized(CallDs)) => WrittenProcessed /\ pc # "crashed"
    /\ (IsScenario /\ AllTargetsRecognized(CallDs)) => ScenarioOutput

(***************************************************************************)
(* C6: shifting an 8-digit date by n days and the result by -n days gives  *)
(* the date back, also across month, year and leap-day boundaries.         *)
(***************************************************************************)
C6_DateRoundTrip ==
    /\ (sh_kind = "DA" /\ sh_pc = "shifted") =>
          sh_out[1].ok /\ WellFormedDA(sh_out[1].value)
    /\ (sh_kind = "DA" /\ sh_pc = "restored") => sh_back[1] = Ok(sh_value)

C6_Witness ==
    /\ sh_kind = "DA" /\ sh_pc = "restored"
    /\ sh_value = "20240229" /\ sh_days = 366
    /\ sh_out[1] = Ok("20250301")
    /\ sh_back[1] = Ok("20240229")

(***************************************************************************)
(* C7: shifting a date-time of 14 or more characters by n days and the     *)
(* result by -n days gives the value back; the shifted value keeps the     *)
(* time of day and everything after the 14th character.                    *)
(***************************************************************************)
C7_DateTimeRoundTrip ==
    /\ (sh_kind = "DT" /\ sh_pc \in {"shifted", "restored"}) =>
          /\ sh_out[1].ok
          /\ Len(sh_out[1].value) = Len(sh_value)
          /\ Suffix(sh_out[1].value, DTPrefixLen) = Suffix(sh_value, DTPrefixLen)
          /\ SubSeq(sh_out[1].value, 9, DTPrefixLen) = SubSeq(sh_value, 9, DTPrefixLen)
          /\ WellFormedDT(sh_out[1].value)
    /\ (sh_kind = "DT" /\ sh_pc = "restored") => sh_back[1] = Ok(sh_value)

C7_Witness ==
    /\ sh_kind = "DT" /\ sh_pc = "restored"
    /\ sh_value = "20231231235959.123456-0500" /\ sh_days = 1
    /\ sh_out[1] = Ok("20240101235959.123456-0500")
    /\ sh_back[1] = Ok(sh_value)

(***************************************************************************)
(* C8: running the script again on the same input and tables, over output  *)
(* trees a complete, crashed or interrupted run left behind, gives every   *)
(* file the disposition, output path and content of its first processing,  *)
(* and a complete run leaves exactly those files in the output trees.      *)
(***************************************************************************)
AllDicomFiles ==
    { "in/s1/a.dcm", "in/s1/st/b.DCM", "in/s2/a.dcm" }

C8_RerunReproducesOutput ==
    /\ Called => last[1] = first[CallPath]
    /\ \A p \in DOMAIN first :
          /\ first[p].returns = "True" =>
                DOMAIN first[p].writes = {InProcessedTree(p)}
          /\ first[p].returns = "False" =>
                DOMAIN first[p].writes = {InUnprocessedTree(p)}
          /\ \A q \in DOMAIN first[p].writes :
                q \in DOMAIN fs /\ fs[q] = first[p].writes[q]
    /\ DOMAIN fs = UNION { DOMAIN first[p].writes : p \in DOMAIN first }
    /\ pc = "done" => DOMAIN first = AllDicomFiles

C8_Witness ==
    /\ run = 2 /\ pc = "done"
    /\ Called /\ last[1] = first[CallPath]
    /\ DOMAIN first = AllDicomFiles
    /\ \E p \in DOMAIN first : first[p].returns = "True"
    /\ \E p \in DOMAIN first : first[p].returns = "False"

(***************************************************************************)
(* C9: when a row of the personal table has a Days_Shifted that is not an  *)
(* integer, the run ends while the tables are loaded: no file is processed *)
(* and none is written.  The maps are set by the load and do not change    *)
(* while files are processed.                                              *)
(***************************************************************************)
NotAnInteger(text) ==
    LET t    == StripOf(text, IntWhiteChars)
        body == IF Len(t) > 0 /\ Char(t, 1) \in {"+", "-"} THEN SubSeq(t, 2, Len(t)) ELSE t
    IN  ~IsIntBody(body)

MalformedPersonalTable ==
    \E k \in 1..Len(personal_csv) : NotAnInteger(personal_csv[k].Days_Shifted)

C9_NothingRunsState ==
    MalformedPersonalTable =>
        /\ pc \in {"load", "crashed"}
        /\ fs = EmptyDict /\ first = EmptyDict /\ last = << >>
        /\ image_map = EmptyDict /\ personal_map = EmptyDict
        /\ processed_count = 0 /\ reports = << >>

C9_MapsKeptStep ==
    pc \in {"listdir", "files"} =>
        \/ image_map' = image_map /\ personal_map' = personal_map
        \/ pc' = "load"

C9_MalformedTableAborts == [](C9_NothingRunsState) /\ [][C9_MapsKeptStep]_vars

C9_Witness ==
    /\ NotAnInteger(personal_csv[2].Days_Shifted)
    /\ ~NotAnInteger(personal_csv[1].Days_Shifted)
    /\ pc = "crashed" /\ run = 2
    /\ fs = EmptyDict

(***************************************************************************)
(* C10: in every subfolder the counters start at zero and after each file  *)
(* anonymized + unprocessed = total; a printed report gives as total the   *)
(* number of files below the subfolder named *.dcm in any letter case, as  *)
(* anonymized those of them in the processed tree and as unprocessed those *)
(* in the unprocessed tree.                                                *)
(***************************************************************************)
DicomBelow(subfolder) ==
    { p \in DOMAIN content \cup OtherInputFiles :
        /\ Len(p) > Len(input_root_dir) + Len(subfolder) + 2
        /\ SubSeq(p, 1, Len(input_root_dir) + Len(subfolder) + 2)
              = input_root_dir \o "/" \o subfolder \o "/"
        /\ Lower(SubSeq(p, Len(p) - 3, Len(p))) = ".dcm" }

C10_CountersAddUp ==
    /\ pc = "files" =>
          /\ anonymized_count + unprocessed_count = processed_count
          /\ processed_count <= Cardinality(DicomBelow(subfolders[idx]))
    /\ \A i \in 1..Len(reports) :
          LET r     == reports[i]
              files == DicomBelow(r.subfolder)
          IN  /\ r.subfolder = subfolders[i]
              /\ r.total = Cardinality(files)
              /\ r.anonymized =
                    Cardinality({p \in files : InProcessedTree(p) \in DOMAIN fs})
              /\ r.unprocessed =
                    Cardinality({p \in files : InUnprocessedTree(p) \in DOMAIN fs})
              /\ r.anonymized + r.unprocessed = r.total

C10_Witness ==
    /\ pc = "done"
    /\ Len(reports) = 3
    /\ reports[1].total = 2 /\ reports[1].anonymized = 1 /\ reports[1].unprocessed = 1
    /\ reports[2].total = 1
    /\ reports[3].total = 0

====
